---- MODULE Spec2Model ----
(***************************************************************************)
(* Update-check / download / verify / launch pipeline of the heat sheet    *)
(* PDF highlighter: UpdateChecker (src/src/utils/updater.py), its cache    *)
(* store (src/src/utils/cache.py), the Version value type                  *)
(* (src/src/version.py) and the GUI collaborator it calls                  *)
(* (src/src/gui/dialogs.py, src/src/gui/main_window.py,                    *)
(* src/src/gui/dev_tools.py).                                              *)
(*                                                                         *)
(* Strings are modelled by what the code reads from them: a version string *)
(* or release tag is the sequence of integers re.findall(r"\d+") finds in  *)
(* it, an asset file name is its sequence of characters, a checksum body   *)
(* is its sequence of whitespace-separated tokens.                         *)
(***************************************************************************)
EXTENDS Integers, Sequences, FiniteSets, TLC

(***************************************************************************)
(* Bounds of the model.                                                    *)
(***************************************************************************)
\* the clock runs from 1 to MaxTime (the epoch of the sentinel entries is 0)
MaxTime == 2
\* how many nested check_for_app_updates calls one thread may hold (the
\* first call and the retries accepted in the error dialog)
MaxDepth == 2
\* the largest number of chunks a download stream delivers
MaxChunks == 2
\* the most callbacks that wait for the Tk main loop; a download marshals
\* three, and starts only when they fit
MaxQueue == 3
\* the largest number in a version string or Version field tried on the
\* Version methods
MaxPart == 1
MaxRetries == 2
MaxAssets == 3

\* update_cache_ttl_seconds, in clock ticks
update_cache_ttl_seconds == 1

Threads == {"t1", "t2"}
TmpPaths == {"tmp1", "tmp2"}

(***************************************************************************)
(* Version (src/src/version.py).  rc is <<>> when absent (None) and <<n>>  *)
(* when present.                                                           *)
(***************************************************************************)
NoRc == <<>>

Version(major, minor, patch, rc) ==
    [major |-> major, minor |-> minor, patch |-> patch, rc |-> rc]

\* Version.__str__: the rc part is printed only when rc is truthy
Version_str_mutant(v) == <<v.major, v.minor, v.patch>>

Version_str(v) ==
    IF v.rc # NoRc /\ v.rc[1] # 0
    THEN <<v.major, v.minor, v.patch, v.rc[1]>>
    ELSE <<v.major, v.minor, v.patch>>

\* Version.from_str raises IndexError on fewer than three integers
Version_can_parse(parts) == Len(parts) >= 3

Version_from_str(parts) ==
    Version(parts[1], parts[2], parts[3],
            IF Len(parts) > 3 THEN <<parts[4]>> ELSE NoRc)

\* the tuple both __lt__ and __gt__ compare: an absent rc counts as -1
Version_key(v) ==
    <<v.major, v.minor, v.patch, IF v.rc # NoRc THEN v.rc[1] ELSE -1>>

\* Python's order on equal-length tuples of integers
TupleLess(a, b) ==
    \E i \in 1..Len(a) :
        /\ a[i] < b[i]
        /\ \A j \in 1..(i - 1) : a[j] = b[j]

Version_lt(a, b) == TupleLess(Version_key(a), Version_key(b))

Version_gt_mutant(a, b) ==
    TupleLess(Version_key(b), Version_key(a)) \/ Version_key(a) = Version_key(b)

Version_gt(a, b) == TupleLess(Version_key(b), Version_key(a))

Version_eq(a, b) ==
    <<a.major, a.minor, a.patch, a.rc>> = <<b.major, b.minor, b.patch, b.rc>>

Version_le(a, b) == Version_lt(a, b) \/ Version_eq(a, b)

Version_ge(a, b) == Version_gt(a, b) \/ Version_eq(a, b)

\* values a check can return besides a Version
FalseSentinel == [kind |-> "False"]
NoValue == [kind |-> "None"]
IsVersion(x) == "major" \in DOMAIN x

\* VERSION_STR = "1.3.3-rc3", the current_version every caller of the
\* application passes
VERSION_STR == <<1, 3, 3, 3>>
CurrentVersion == Version_from_str(VERSION_STR)

(***************************************************************************)
(* Release metadata and asset selection.                                   *)
(***************************************************************************)
None == <<>>

UpperCase == <<"A", "E", "H", "S", "X">>
LowerCase == <<"a", "e", "h", "s", "x">>

\* str.lower on one character
LowerChar(c) ==
    IF \E i \in 1..Len(UpperCase) : UpperCase[i] = c
    THEN LowerCase[CHOOSE i \in 1..Len(UpperCase) : UpperCase[i] = c]
    ELSE c

lower_mutant(name) == name

lower(name) == [i \in 1..Len(name) |-> LowerChar(name[i])]

endswith(name, suffix) ==
    /\ Len(name) >= Len(suffix)
    /\ SubSeq(name, Len(name) - Len(suffix) + 1, Len(name)) = suffix

DotExe == <<".", "e", "x", "e">>
DotSha256 == <<".", "s", "h", "a", "2", "5", "6">>

\* the for loop of _select_release_assets over assets[i..], carrying
\* (exe_url, sha_url): a later match overwrites an earlier one
RECURSIVE select_loop(_, _, _, _)
select_loop(assets, i, exe_url, sha_url) ==
    IF i > Len(assets) THEN <<exe_url, sha_url>>
    ELSE IF endswith(lower(assets[i].name), DotExe)
         THEN select_loop(assets, i + 1, assets[i].url, sha_url)
    ELSE IF endswith(lower(assets[i].name), DotSha256)
         THEN select_loop(assets, i + 1, exe_url, assets[i].url)
    ELSE select_loop(assets, i + 1, exe_url, sha_url)

select_release_assets(release) == select_loop(release.assets, 1, None, None)


\* does the release carry an asset of that suffix (read off the asset
\* names, independently of the selection loop)
HasAsset(release, suffix) ==
    \E i \in 1..Len(release.assets) :
        endswith(lower(release.assets[i].name), suffix)

ExeName == <<"a", ".", "e", "x", "e">>
ExeNameUpper == <<"A", ".", "E", "X", "E">>
ShaName == <<"a", ".", "e", "x", "e", ".", "s", "h", "a", "2", "5", "6">>
NotesName == <<"n", ".", "t", "x", "t">>

Asset(name, url) == [name |-> name, url |-> url]
Release(tag, pre, assets) ==
    [tag_name |-> tag, prerelease |-> pre, assets |-> assets]

BothAssets(tag) ==
    <<Asset(ExeName, <<"exe", tag>>), Asset(ShaName, <<"sha", tag>>)>>
ExeOnly(tag) ==
    <<Asset(NotesName, <<"notes", tag>>), Asset(ExeNameUpper, <<"exe", tag>>)>>
ShaOnly(tag) == <<Asset(ShaName, <<"sha", tag>>)>>

\* final releases the "latest release" endpoint may name, and prereleases
Old == Release(<<1, 3, 3>>, FALSE, BothAssets(<<1, 3, 3>>))
New == Release(<<1, 3, 4>>, FALSE, BothAssets(<<1, 3, 4>>))
NewNoSha == Release(<<1, 3, 4>>, FALSE, ExeOnly(<<1, 3, 4>>))
NewNoExe == Release(<<1, 3, 4>>, FALSE, ShaOnly(<<1, 3, 4>>))
BadTag == Release(<<1, 3>>, FALSE, BothAssets(<<1, 3>>))
PreOld == Release(<<1, 3, 3, 3>>, TRUE, BothAssets(<<1, 3, 3, 3>>))
PreA == Release(<<1, 3, 4, 1>>, TRUE, BothAssets(<<1, 3, 4, 1>>))
PreB == Release(<<1, 3, 5, 1>>, TRUE, ShaOnly(<<1, 3, 5, 1>>))

\* what the release host serves during a run: the answer of the "latest
\* release" endpoint and the answer of the "all releases" endpoint
Server(latest, all) == [latest |-> latest, all |-> all]

Servers ==
    { Server(Old, <<Old>>),
      Server(New, <<PreA, PreB, New, Old>>),
      Server(NewNoSha, <<PreB, PreA, NewNoSha>>),
      Server(NewNoExe, <<NewNoExe, PreOld, Old>>),
      Server(BadTag, <<BadTag>>) }

\* [release for release in releases_info if release["prerelease"]]
pre_releases(releases_info) == SelectSeq(releases_info, LAMBDA r : r.prerelease)

(***************************************************************************)
(* State.                                                                  *)
(***************************************************************************)
VARIABLES
    probe,            \* the arguments and results of a function called on its own
    server,           \* what the release host serves
    clock,            \* datetime.datetime.now(), in ticks
    settings,         \* AppSettings.settings, the keys the updater uses
    updateCache,      \* the update cache file: <<>> when absent, else <<payload>>
    releasesCache,    \* the releases cache file, likewise
    frames,           \* per thread: the stack of check_for_app_updates calls
    dl,               \* per thread: its download_and_run_installer call
    files,            \* the temporary installer files: path -> <<>> or <<bytes>>
    uiQueue,          \* callbacks marshalled to the Tk main loop (root.after)
    download_active,  \* PDFHighlighterApp.download_active
    button,           \* what start_abort_button is bound to
    appClosed         \* root.destroy() has run

vars == <<probe, server, clock, settings, updateCache, releasesCache, frames, dl, files,
          uiQueue, download_active, button, appClosed>>

Epoch == 0

\* the payload invalidate_releases_cache and the corruption reset write
ReleasesSentinel == [fetched_at |-> Epoch, channel |-> "", releases |-> <<>>]

IdleDl ==
    [pc |-> "idle", url |-> None, sha |-> None, path |-> "", payload |-> <<>>,
     n |-> 0, reported |-> 0, body |-> <<>>, launched |-> <<>>, ev |-> <<>>]

NewFrame(force, quiet) ==
    [pc |-> "entry", force |-> force, quiet |-> quiet, now |-> 0,
     latest |-> NoValue, exe |-> None, sha |-> None, rel |-> NoValue,
     stable |-> NoValue, listed |-> <<>>, channel |-> "", vs |-> "",
     ret |-> NoValue, result |-> NoValue, loaded |-> NoValue, cb |-> NoValue,
     asked |-> NoValue, ask0 |-> "", newest0 |-> <<>>, ev |-> <<>>]

\* no function is called on its own
NoProbe == [kind |-> "none"]

\* the application after construction, with its settings at their defaults
InitProgram ==
    /\ server \in Servers
    /\ clock = 1
    /\ settings = [update_channel |-> "stable", verify_sha |-> "True",
                   ask_for_update |-> "True",
                   newest_version_available |-> <<0, 0, 0>>]
    /\ frames = [t \in Threads |-> <<>>]
    /\ dl = [t \in Threads |-> IdleDl]
    /\ files = [p \in TmpPaths |-> <<>>]
    /\ uiQueue = <<>>
    /\ download_active = FALSE
    /\ button = "start"
    /\ appClosed = FALSE

\* ... and no cache file
InitApp == InitProgram /\ updateCache = <<>> /\ releasesCache = <<>>

Init == InitApp /\ probe = NoProbe

Top(t) == frames[t][Len(frames[t])]
SetTop(t, f) == [frames EXCEPT ![t] = [@ EXCEPT ![Len(@)] = f]]
At(t, pc) == frames[t] # <<>> /\ Top(t).pc = pc


(***************************************************************************)
(* Cache store (src/src/utils/cache.py).                                   *)
(***************************************************************************)
\* Contents of a cache file: <<>> is an absent file, <<c>> a file with
\* content c.  A JSON object is the record of its keys; a text json.loads
\* rejects and a JSON document that is no object are records of their own.
NotJson == [text |-> "{not-json"]
JsonArray == [array |-> <<>>]

\* a fetched_at text datetime.fromisoformat rejects ("INVALID")
BadTimestamp == -1

\* the payload load_update_cache writes over a file that is no JSON
UpdateSentinel == [fetched_at |-> Epoch, latest_version |-> <<0, 0, 0>>]

json_loads_fails(c) == "text" \in DOMAIN c

\* datetime.fromisoformat(data["fetched_at"]) raises: data is no object
\* (TypeError), has no such key (KeyError) or the text is no timestamp
fetched_at_fails(c) ==
    \/ "array" \in DOMAIN c
    \/ "fetched_at" \notin DOMAIN c
    \/ c.fetched_at = BadTimestamp

\* load_update_cache returns (None, None): absent file, unreadable JSON or
\* a fetched_at that cannot be read
update_cache_none(file) ==
    \/ file = <<>>
    \/ json_loads_fails(file[1])
    \/ fetched_at_fails(file[1])

\* Version.from_str(data["latest_version"]) is outside every try block: a
\* missing key (KeyError) or a text with fewer than three integers
\* (IndexError) leaves load_update_cache as an exception
load_update_cache_raises(file) ==
    /\ ~update_cache_none(file)
    /\ \/ "latest_version" \notin DOMAIN file[1]
       \/ ~Version_can_parse(file[1].latest_version)

\* load_update_cache, the value returned: (None, None) or
\* (fetched_at, Version.from_str(latest_version))
load_update_cache(file) ==
    IF update_cache_none(file) THEN NoValue
    ELSE [fetched_at |-> file[1].fetched_at,
          latest_version |-> Version_from_str(file[1].latest_version)]

\* load_update_cache, the file it leaves: only unreadable JSON is written
\* over, and only if the atomic write succeeds (ok); its failure is logged
load_update_cache_file_mutant(file, ok) == file

load_update_cache_file(file, ok) ==
    IF file # <<>> /\ json_loads_fails(file[1]) /\ ok
    THEN <<UpdateSentinel>> ELSE file

\* the payload save_update_cache writes
update_cache_payload(fetched_at, latest_version) ==
    [fetched_at |-> fetched_at, latest_version |-> Version_str(latest_version)]

\* load_releases_cache: (None, None, None) for an absent file, else the
\* three fields of the payload
load_releases_cache(file) ==
    IF \/ file = <<>>
       \/ json_loads_fails(file[1])
       \/ fetched_at_fails(file[1])
    THEN NoValue ELSE file[1]

\* load_releases_cache, the file it leaves: as load_update_cache_file, with
\* the releases sentinel
load_releases_cache_file(file, ok) ==
    IF file # <<>> /\ json_loads_fails(file[1]) /\ ok
    THEN <<ReleasesSentinel>> ELSE file

\* invalidate_releases_cache: the sentinel replaces the file, unless the
\* atomic write fails on every retry (ok = FALSE), which is only logged
invalidate_releases_cache_mutant(file, ok) == file

invalidate_releases_cache(file, ok) ==
    IF ok THEN <<ReleasesSentinel>> ELSE file

\* the freshness test of check_for_app_updates
cache_fresh_mutant(now, cache_time) == now - cache_time < update_cache_ttl_seconds - 1

cache_fresh(now, cache_time) == now - cache_time < update_cache_ttl_seconds

(***************************************************************************)
(* check_for_app_updates and the live fetch, one action per step between   *)
(* two blocking calls (file access, HTTP request, modal dialog).           *)
(***************************************************************************)
Running == ~appClosed

\* a thread is started on check_for_app_updates: the startup check
\* (force_check=False), a click on the update label (force_check=True) and
\* any other caller of the public method
StartCheck(t, force, quiet) ==
    /\ Running
    /\ frames[t] = <<>> /\ dl[t].pc = "idle"
    /\ frames' = [frames EXCEPT ![t] = <<NewFrame(force, quiet)>>]
    /\ UNCHANGED <<probe, server, clock, settings, updateCache, releasesCache, dl, files,
                   uiQueue, download_active, button, appClosed>>

\* lines 43-57: take the time, then either read the update cache and return
\* on a hit, or invalidate the releases cache (a failed write is logged and
\* swallowed by invalidate_releases_cache)
CheckEnter(t) ==
    /\ Running /\ At(t, "entry")
    /\ LET f == [Top(t) EXCEPT !.now = clock,
                               !.ask0 = settings.ask_for_update,
                               !.newest0 = settings.newest_version_available]
           c == load_update_cache(updateCache)
       IN
       \/ /\ ~f.force
          /\ \E ok \in BOOLEAN :
                updateCache' = load_update_cache_file(updateCache, ok)
          /\ frames' = SetTop(t,
                IF load_update_cache_raises(updateCache)
                THEN [f EXCEPT !.pc = "raised", !.ev = <<"load">>]
                ELSE IF c # NoValue /\ cache_fresh(f.now, c.fetched_at)
                THEN [f EXCEPT !.loaded = c, !.cb = <<c.latest_version, CurrentVersion>>,
                               !.result = c.latest_version, !.pc = "returned",
                               !.ev = <<"load", "cb">>]
                ELSE [f EXCEPT !.loaded = c, !.pc = "fetch", !.ev = <<"load">>])
          /\ UNCHANGED releasesCache
       \/ /\ f.force
          /\ \E ok \in BOOLEAN :
                /\ releasesCache' = invalidate_releases_cache(releasesCache, ok)
                /\ frames' = SetTop(t, [f EXCEPT !.pc = "fetch",
                        !.ev = <<IF ok THEN "invalidate" ELSE "invalidate_failed">>])
          /\ UNCHANGED updateCache
    /\ UNCHANGED <<probe, server, clock, settings, dl, files, uiQueue,
                   download_active, button, appClosed>>

\* _apply_channel_policy, the stable branch; on rc the all-releases request
\* comes next
AfterLatest(f, release) ==
    LET a == select_release_assets(release)
        g == [f EXCEPT !.latest = Version_from_str(release.tag_name),
                       !.exe = a[1], !.sha = a[2], !.rel = release,
                       !.stable = release,
                       !.channel = settings.update_channel,
                       !.ev = Append(@, "http_latest")]
    IN  IF ~Version_can_parse(release.tag_name)
        THEN [f EXCEPT !.pc = "raised", !.ev = Append(@, "http_latest")]
        ELSE [g EXCEPT !.pc = IF settings.update_channel = "rc"
                              THEN "fetch_all" ELSE "validate"]

\* lines 129-134: the latest-release request; a RequestException goes to
\* _handle_update_check_exception, an unparsable tag raises IndexError
CheckFetchLatest(t) ==
    /\ Running /\ At(t, "fetch")
    /\ \/ frames' = SetTop(t, [Top(t) EXCEPT !.pc = "failed",
                                             !.ev = Append(@, "http_latest")])
       \/ frames' = SetTop(t, AfterLatest(Top(t), server.latest))
    /\ UNCHANGED <<probe, server, clock, settings, updateCache, releasesCache, dl, files,
                   uiQueue, download_active, button, appClosed>>

\* the prerelease _handle_beta_releases looks at
latest_pre_release(releases_info) == pre_releases(releases_info)[1]

\* _handle_beta_releases after its request returned releases_info: the
\* frame and the settings it leaves
BetaFrame(f, releases_info) ==
    LET pre == pre_releases(releases_info)
        p == latest_pre_release(releases_info)
        v == Version_from_str(p.tag_name)
        a == select_release_assets(p)
        g == [f EXCEPT !.listed = releases_info, !.pc = "validate",
                       !.ev = Append(@, "http_all")]
    IN  IF pre # <<>> /\ Version_gt(v, f.latest)
        THEN [g EXCEPT !.latest = v, !.rel = p,
                       !.exe = IF a[1] # None THEN a[1] ELSE f.exe,
                       !.sha = a[2]]
        ELSE g

BetaSettings(f, releases_info) ==
    LET pre == pre_releases(releases_info)
        v == Version_from_str(latest_pre_release(releases_info).tag_name)
        set(x) == [settings EXCEPT !.newest_version_available = Version_str(x),
                                   !.ask_for_update = "True"]
    IN  IF pre = <<>> THEN set(f.latest)
        ELSE IF Version_gt(v, f.latest) THEN set(v)
        ELSE settings

CheckFetchAll(t) ==
    /\ Running /\ At(t, "fetch_all")
    /\ \/ /\ frames' = SetTop(t, [Top(t) EXCEPT !.pc = "failed",
                                                !.ev = Append(@, "http_all")])
          /\ UNCHANGED settings
       \/ /\ frames' = SetTop(t, BetaFrame(Top(t), server.all))
          /\ settings' = BetaSettings(Top(t), server.all)
    /\ UNCHANGED <<probe, server, clock, updateCache, releasesCache, dl, files, uiQueue,
                   download_active, button, appClosed>>


\* _validate_required_assets: which branch it takes
\*   "no_sha"  the update is suppressed, current_version is returned
\*   "no_exe"  no installer asset, latest_version is returned
\*   "ok"      None is returned and the check goes on
validate_required_assets_mutant(latest_version, download_url, sha_url, verify_sha) ==
    IF Version_gt(latest_version, CurrentVersion) /\ download_url = None
    THEN "no_exe" ELSE "ok"

validate_required_assets(latest_version, download_url, sha_url, verify_sha) ==
    IF verify_sha = "True" /\ Version_gt(latest_version, CurrentVersion)
       /\ sha_url = None
    THEN "no_sha"
    ELSE IF Version_gt(latest_version, CurrentVersion) /\ download_url = None
    THEN "no_exe"
    ELSE "ok"

\* _update_settings_if_newer
update_settings_if_newer(s, latest_version) ==
    IF Version_gt(latest_version, Version_from_str(s.newest_version_available))
    THEN [s EXCEPT !.ask_for_update = "True",
                   !.newest_version_available = Version_str(latest_version)]
    ELSE s

\* the test of _should_prompt_user
should_prompt_user(s, latest_version, force_check) ==
    /\ Version_gt(latest_version, CurrentVersion)
    /\ (s.ask_for_update = "True" \/ force_check)

\* lines 187 and 193: if force_check and not quiet
notify_mutant(force_check, quiet) == force_check

notify(force_check, quiet) == force_check /\ ~quiet

\* lines 137-153: asset validation, settings bookkeeping and the decision
\* to prompt
CheckValidate(t) ==
    /\ Running /\ At(t, "validate")
    /\ LET f == [Top(t) EXCEPT !.vs = settings.verify_sha]
           branch == validate_required_assets(f.latest, f.exe, f.sha, settings.verify_sha)
           loud == notify(f.force, f.quiet)
           s2 == update_settings_if_newer(settings, f.latest)
           prompt == should_prompt_user(s2, f.latest, f.force)
       IN
       IF branch = "no_sha"
       THEN /\ frames' = SetTop(t, [f EXCEPT !.ret = CurrentVersion, !.pc = "persist",
                    !.ev = IF loud THEN Append(@, "show_up_to_date") ELSE @])
            /\ UNCHANGED settings
       ELSE IF branch = "no_exe"
       THEN /\ frames' = SetTop(t, [f EXCEPT !.ret = f.latest, !.pc = "persist",
                    !.ev = IF loud THEN Append(@, "show_update_error_retry") ELSE @])
            /\ UNCHANGED settings
       ELSE /\ settings' = s2
            /\ frames' = SetTop(t,
                 IF f.quiet
                 THEN [f EXCEPT !.ret = f.latest, !.pc = "persist"]
                 ELSE IF prompt THEN [f EXCEPT !.pc = "prompt"]
                 ELSE [f EXCEPT !.ret = f.latest, !.pc = "persist",
                         !.ev = IF f.force THEN Append(@, "show_up_to_date") ELSE @])
    /\ UNCHANGED <<probe, server, clock, updateCache, releasesCache, dl, files, uiQueue,
                   download_active, button, appClosed>>

\* the arguments _handle_user_prompt gives download_and_run_installer
CallDl(download_url, sha_url) ==
    [IdleDl EXCEPT !.pc = "call", !.url = download_url, !.sha = sha_url]

\* _handle_user_prompt: the three-way question, then on Yes the download
\* (with the checksum URL only if verify_sha is "True" now), on No the
\* reminder question
CheckPrompt(t) ==
    /\ Running /\ At(t, "prompt")
    /\ LET f == [Top(t) EXCEPT !.asked = Top(t).latest,
                               !.ev = Append(@, "show_update_available")]
       IN
       \/ /\ frames' = SetTop(t, [f EXCEPT !.ret = f.latest, !.pc = "persist"])
          /\ UNCHANGED <<settings, dl>>
       \/ /\ IF f.exe = None
             THEN /\ frames' = SetTop(t, [f EXCEPT !.ret = f.latest, !.pc = "persist",
                                    !.ev = Append(@, "show_download_error")])
                  /\ UNCHANGED dl
             ELSE /\ frames' = SetTop(t, [f EXCEPT !.pc = "download",
                                    !.ev = Append(@, "download")])
                  /\ dl' = [dl EXCEPT ![t] =
                        CallDl(f.exe, IF settings.verify_sha = "True" THEN f.sha ELSE None)]
          /\ UNCHANGED settings
       \/ \E stop \in BOOLEAN :
             /\ frames' = SetTop(t, [f EXCEPT !.ret = f.latest, !.pc = "persist",
                            !.ev = Append(@, "show_update_reminder_choice")])
             /\ settings' = IF stop THEN [settings EXCEPT !.ask_for_update = "False"]
                            ELSE settings
             /\ UNCHANGED dl
    /\ UNCHANGED <<probe, server, clock, updateCache, releasesCache, files, uiQueue,
                   download_active, button, appClosed>>

\* download_and_run_installer came back into _handle_user_prompt: a normal
\* return ends the fetch with latest_version, a RequestException it let
\* escape is caught by the except clause of _get_latest_version_from_github
CheckAfterDownload(t) ==
    /\ Running /\ At(t, "download")
    /\ dl[t].pc \in {"returned", "raised"}
    /\ frames' = SetTop(t,
          IF dl[t].pc = "returned"
          THEN [Top(t) EXCEPT !.ret = Top(t).latest, !.pc = "persist"]
          ELSE [Top(t) EXCEPT !.pc = "failed"])
    /\ dl' = [dl EXCEPT ![t] = IdleDl]
    /\ UNCHANGED <<probe, server, clock, settings, updateCache, releasesCache, files, uiQueue,
                   download_active, button, appClosed>>

\* line 207: if force_check and not quiet
offer_retry_mutant(force_check, quiet) == force_check

offer_retry(force_check, quiet) == force_check /\ ~quiet

\* _handle_update_check_exception: the retry dialog only for a forced check
\* that is not quiet; accepting it calls check_for_app_updates again
CheckException(t) ==
    /\ Running /\ At(t, "failed")
    /\ LET f == Top(t)
           g == [f EXCEPT !.ev = Append(@, "show_update_error_retry")]
       IN
       IF offer_retry(f.force, f.quiet)
       THEN \/ frames' = SetTop(t, [g EXCEPT !.ret = FalseSentinel, !.pc = "persist"])
            \/ /\ Len(frames[t]) < MaxDepth
               /\ frames' = [frames EXCEPT ![t] =
                     Append([@ EXCEPT ![Len(@)] = [g EXCEPT !.pc = "retrying"]],
                            NewFrame(f.force, FALSE))]
       ELSE frames' = SetTop(t, [f EXCEPT !.ret = FalseSentinel, !.pc = "persist"])
    /\ UNCHANGED <<probe, server, clock, settings, updateCache, releasesCache, dl, files,
                   uiQueue, download_active, button, appClosed>>

\* the retried check_for_app_updates came back: its result is returned by
\* the live fetch of the caller, an exception it raised goes on up
CheckRetryReturn(t) ==
    /\ Running
    /\ Len(frames[t]) >= 2
    /\ Top(t).pc \in {"returned", "raised"}
    /\ LET inner == Top(t)
           n == Len(frames[t])
           outer == frames[t][n - 1]
       IN  frames' = [frames EXCEPT ![t] = Append(SubSeq(@, 1, n - 2),
                  IF inner.pc = "returned"
                  THEN [outer EXCEPT !.ret = inner.result, !.pc = "persist"]
                  ELSE [outer EXCEPT !.pc = "raised"])]
    /\ UNCHANGED <<probe, server, clock, settings, updateCache, releasesCache, dl, files,
                   uiQueue, download_active, button, appClosed>>

\* lines 63-65: save_update_cache, then update_callback
save_then_notify_mutant(ev) == ev \o <<"cb", "save">>

save_then_notify(ev) == ev \o <<"save", "cb">>

\* lines 61-66: a Version is saved to the update cache (the write raises
\* after its retries are used up), then the version-update callback runs
CheckPersist(t) ==
    /\ Running /\ At(t, "persist")
    /\ LET f == Top(t)
           done(g) == [g EXCEPT !.cb = <<f.ret, CurrentVersion>>, !.result = f.ret,
                                !.pc = "returned", !.ev = Append(@, "cb")]
       IN
       IF IsVersion(f.ret)
       THEN \/ /\ updateCache' = <<update_cache_payload(f.now, f.ret)>>
               /\ frames' = SetTop(t, [done(f) EXCEPT !.ev = save_then_notify(f.ev)])
            \/ /\ frames' = SetTop(t, [f EXCEPT !.pc = "raised",
                                                !.ev = Append(@, "save_failed")])
               /\ UNCHANGED updateCache
       ELSE /\ frames' = SetTop(t, done(f))
            /\ UNCHANGED updateCache
    /\ UNCHANGED <<probe, server, clock, settings, releasesCache, dl, files, uiQueue,
                   download_active, button, appClosed>>

\* the outermost call is over and its thread ends
CheckFinish(t) ==
    /\ Running
    /\ Len(frames[t]) = 1
    /\ Top(t).pc \in {"returned", "raised"}
    /\ frames' = [frames EXCEPT ![t] = <<>>]
    /\ UNCHANGED <<probe, server, clock, settings, updateCache, releasesCache, dl, files,
                   uiQueue, download_active, button, appClosed>>


(***************************************************************************)
(* download_and_run_installer.                                             *)
(***************************************************************************)
\* os.getpid()
HostPid == "pid"

\* the chunks response.iter_content delivers: chunk i is one byte when i is
\* odd and two bytes when i is even; a stream has up to MaxChunks chunks
Chunk(i) == IF i % 2 = 1 THEN <<"a">> ELSE <<"b", "c">>
Payloads == { [i \in 1..n |-> Chunk(i)] : n \in 0..MaxChunks }

\* hashlib.sha256(bytes).hexdigest(): an injective map to lower-case tokens
sha256(bytes) == [hex |-> bytes, upper |-> FALSE]
OtherDigest == [hex |-> <<"z">>, upper |-> FALSE]
Junk == [word |-> "installer.exe"]
Upper(token) == [token EXCEPT !.upper = TRUE]
\* str.lower on a token
lower_token_mutant(token) == token

lower_token(token) ==
    IF "hex" \in DOMAIN token THEN [token EXCEPT !.upper = FALSE] ELSE token

\* the bodies a checksum URL may deliver for an installer of those bytes
ChecksumBodies(bytes) ==
    { <<>>, <<Junk>>,
      <<sha256(bytes)>>, <<sha256(bytes), Junk>>, <<Upper(sha256(bytes)), Junk>>,
      <<Junk, sha256(bytes)>>,
      <<OtherDigest, Junk>>, <<OtherDigest, Junk, sha256(bytes), Junk>> }

\* re.search(r"\b[a-fA-F0-9]{64}\b", text): the first 64-hex token, or <<>>
RECURSIVE first_hex_token(_, _)
first_hex_token(body, i) ==
    IF i > Len(body) THEN <<>>
    ELSE IF "hex" \in DOMAIN body[i] THEN <<body[i]>>
    ELSE first_hex_token(body, i + 1)

\* the comparison of _verify_sha256 once both texts are there
sha_matches_mutant(body, bytes) == first_hex_token(body, 1) # <<>>

sha_matches(body, bytes) ==
    /\ first_hex_token(body, 1) # <<>>
    /\ lower_token(sha256(bytes)) = lower_token(first_hex_token(body, 1)[1])

FreePaths == { p \in TmpPaths : files[p] = <<>> }

\* _safe_unlink
safe_unlink_mutant(path) == files

safe_unlink(path) == [files EXCEPT ![path] = <<>>]

\* lines 225-229: start_download_ui marshals start_download to the main
\* loop; NamedTemporaryFile creates an empty file under a name not in use
DlBegin(t) ==
    /\ Running /\ dl[t].pc = "call"
    /\ Len(uiQueue) + 3 <= MaxQueue
    /\ FreePaths # {}
    /\ LET p == CHOOSE q \in FreePaths : TRUE
       IN  /\ dl' = [dl EXCEPT ![t] = [@ EXCEPT !.pc = "get", !.path = p,
                                                !.ev = <<"start_download_ui">>]]
           /\ files' = [files EXCEPT ![p] = <<<<>>>>]
    /\ uiQueue' = Append(uiQueue, "start_download")
    /\ UNCHANGED <<probe, server, clock, settings, updateCache, releasesCache, frames,
                   download_active, button, appClosed>>

\* lines 301-302 and the except clauses of lines 233-240: an HTTPError
\* (raise_for_status) is shown and swallowed, any other exception is
\* re-raised after the file is removed
DlGet(t) ==
    /\ Running /\ dl[t].pc = "get"
    /\ \/ /\ dl' = [dl EXCEPT ![t] = [@ EXCEPT !.pc = "returned",
                      !.ev = @ \o <<"http_exe", "show_download_error", "unlink">>]]
          /\ files' = safe_unlink(dl[t].path)
       \/ /\ dl' = [dl EXCEPT ![t] = [@ EXCEPT !.pc = "raised",
                      !.ev = @ \o <<"http_exe", "unlink">>]]
          /\ files' = safe_unlink(dl[t].path)
       \/ /\ \E payload \in Payloads :
                dl' = [dl EXCEPT ![t] = [@ EXCEPT !.pc = "loop", !.payload = payload,
                                                  !.ev = Append(@, "http_exe")]]
          /\ UNCHANGED files
    /\ UNCHANGED <<probe, server, clock, settings, updateCache, releasesCache, frames, uiQueue,
                   download_active, button, appClosed>>

\* UpdateDialogs.is_download_cancelled -> PDFHighlighterApp.is_download_aborted
is_download_cancelled == ~download_active

\* one round of the loop of _download_with_progress (lines 314-323): the
\* stream breaks, or the next chunk arrives and is written and reported
\* unless the download is cancelled; when the stream is exhausted lines
\* 246-252 run
DlChunk(t) ==
    /\ Running /\ dl[t].pc = "loop"
    /\ LET d == dl[t]
       IN
       IF d.n = Len(d.payload)
       THEN /\ dl' = [dl EXCEPT ![t] = [d EXCEPT
                        !.ev = Append(@, "finish_download_ui"),
                        !.pc = IF d.sha # None THEN "verify" ELSE "close"]]
            /\ uiQueue' = Append(uiQueue, "finish_download")
            /\ UNCHANGED files
       ELSE
       \/ /\ dl' = [dl EXCEPT ![t] = [d EXCEPT !.pc = "raised",
                                               !.ev = Append(@, "unlink")]]
          /\ files' = safe_unlink(d.path)
          /\ UNCHANGED uiQueue
       \/ /\ is_download_cancelled
          /\ dl' = [dl EXCEPT ![t] = [d EXCEPT !.pc = "returned",
                                               !.ev = @ \o <<"cancelled", "unlink">>]]
          /\ files' = safe_unlink(d.path)
          /\ UNCHANGED uiQueue
       \/ /\ ~is_download_cancelled
          /\ files' = [files EXCEPT ![d.path] = <<@[1] \o d.payload[d.n + 1]>>]
          /\ dl' = [dl EXCEPT ![t] = [d EXCEPT
                      !.n = @ + 1,
                      !.reported = @ + Len(d.payload[d.n + 1])]]
          /\ UNCHANGED uiQueue
    /\ UNCHANGED <<probe, server, clock, settings, updateCache, releasesCache, frames,
                   download_active, button, appClosed>>

\* _verify_sha256 and lines 255-258: every failure shows the download error
\* and removes the file
DlVerify(t) ==
    /\ Running /\ dl[t].pc = "verify"
    /\ LET d == dl[t]
           bytes == files[d.path][1]
           fail(why, body) == [d EXCEPT !.pc = "returned", !.body = body,
                  !.ev = @ \o <<why, "show_download_error", "unlink">>]
       IN
       \/ /\ dl' = [dl EXCEPT ![t] = fail("sha_request_failed", <<>>)]
          /\ files' = safe_unlink(d.path)
       \/ \E body \in ChecksumBodies(bytes) :
             \/ /\ dl' = [dl EXCEPT ![t] = fail("payload_unreadable", body)]
                /\ first_hex_token(body, 1) # <<>>
                /\ files' = safe_unlink(d.path)
             \/ /\ ~sha_matches(body, bytes)
                /\ dl' = [dl EXCEPT ![t] = fail("sha_rejected", body)]
                /\ files' = safe_unlink(d.path)
             \/ /\ sha_matches(body, bytes)
                /\ dl' = [dl EXCEPT ![t] = [d EXCEPT !.pc = "close", !.body = body,
                                                     !.ev = Append(@, "sha_ok")]]
                /\ UNCHANGED files
    /\ UNCHANGED <<probe, server, clock, settings, updateCache, releasesCache, frames, uiQueue,
                   download_active, button, appClosed>>

\* line 261: close_application marshals root.destroy to the main loop
DlClose(t) ==
    /\ Running /\ dl[t].pc = "close"
    /\ dl' = [dl EXCEPT ![t] = [@ EXCEPT !.pc = "spawn",
                                         !.ev = Append(@, "close_application")]]
    /\ uiQueue' = Append(uiQueue, "destroy")
    /\ UNCHANGED <<probe, server, clock, settings, updateCache, releasesCache, frames, files,
                   download_active, button, appClosed>>

\* _spawn_installer: Popen([update_script, str(pid), installer_path])
DlSpawn(t) ==
    /\ Running /\ dl[t].pc = "spawn"
    /\ dl' = [dl EXCEPT ![t] = [@ EXCEPT !.pc = "returned",
                                         !.launched = Append(@, <<HostPid, dl[t].path>>),
                                         !.ev = Append(@, "spawn_installer")]]
    /\ UNCHANGED <<probe, server, clock, settings, updateCache, releasesCache, frames, files,
                   uiQueue, download_active, button, appClosed>>


\* a thread that called download_and_run_installer directly ends
DlFinish(t) ==
    /\ Running /\ frames[t] = <<>>
    /\ dl[t].pc \in {"returned", "raised"}
    /\ dl' = [dl EXCEPT ![t] = IdleDl]
    /\ UNCHANGED <<probe, server, clock, settings, updateCache, releasesCache, frames, files,
                   uiQueue, download_active, button, appClosed>>

(***************************************************************************)
(* The Tk main loop, the user and the developer tools.                     *)
(***************************************************************************)
\* the main loop runs the next marshalled callback: start_download,
\* finish_download (main_window.py) or root.destroy
UiStep ==
    /\ Running /\ uiQueue # <<>>
    /\ uiQueue' = Tail(uiQueue)
    /\ download_active' = IF Head(uiQueue) = "start_download" THEN TRUE
                          ELSE IF Head(uiQueue) = "finish_download" THEN FALSE
                          ELSE download_active
    /\ button' = IF Head(uiQueue) = "start_download" THEN "abort" ELSE button
    /\ appClosed' = (Head(uiQueue) = "destroy")
    /\ UNCHANGED <<probe, server, clock, settings, updateCache, releasesCache, frames, dl,
                   files>>

\* abort_download, the command of the button while it reads "abort"
abort_download ==
    /\ Running /\ button = "abort"
    /\ download_active' = FALSE
    /\ button' = "start"
    /\ UNCHANGED <<probe, server, clock, settings, updateCache, releasesCache, frames, dl,
                   files, uiQueue, appClosed>>

\* the verify_sha checkbox of the developer tools
DevToggleVerifySha ==
    /\ Running
    /\ settings' = [settings EXCEPT !.verify_sha =
                        IF @ = "True" THEN "False" ELSE "True"]
    /\ UNCHANGED <<probe, server, clock, updateCache, releasesCache, frames, dl, files, uiQueue,
                   download_active, button, appClosed>>

\* _on_channel_changed: store the channel and start a quiet forced check on
\* a new thread
DevChannelChanged(t) ==
    /\ Running
    /\ frames[t] = <<>> /\ dl[t].pc = "idle"
    /\ settings' = [settings EXCEPT !.update_channel =
                        IF @ = "stable" THEN "rc" ELSE "stable"]
    /\ frames' = [frames EXCEPT ![t] = <<NewFrame(TRUE, TRUE)>>]
    /\ UNCHANGED <<probe, server, clock, updateCache, releasesCache, dl, files, uiQueue,
                   download_active, button, appClosed>>

\* the payload save_releases_cache writes
releases_cache_payload(releases, channel, fetched_at) ==
    [fetched_at |-> fetched_at, channel |-> channel, releases |-> releases]

\* _fetch_and_apply_releases_async: the fetched list is saved; a failed
\* write is logged and the cache keeps its content
DevSaveReleases ==
    /\ Running
    /\ \/ releasesCache' = <<releases_cache_payload(<<"1.3.4">>,
                                   settings.update_channel, clock)>>
       \/ UNCHANGED releasesCache
    /\ UNCHANGED <<probe, server, clock, settings, updateCache, frames, dl, files, uiQueue,
                   download_active, button, appClosed>>

\* _install_selected_release: a release with an installer is picked; with
\* verification required it must have a checksum too
DevInstall(t) ==
    /\ Running
    /\ frames[t] = <<>> /\ dl[t].pc = "idle"
    /\ \E i \in 1..Len(server.all) :
          LET release == server.all[i]
              a == select_release_assets(release)
              sha_url == IF settings.verify_sha = "True" THEN a[2] ELSE None
          IN  /\ a[1] # None
              /\ ~(settings.verify_sha = "True" /\ sha_url = None)
              /\ dl' = [dl EXCEPT ![t] = CallDl(a[1], sha_url)]
    /\ UNCHANGED <<probe, server, clock, settings, updateCache, releasesCache, frames, files,
                   uiQueue, download_active, button, appClosed>>

\* time passes; the clock is read by check_for_app_updates on entry only
\* (line 43), so a tick is taken when some call is about to read it
Tick ==
    /\ Running /\ clock < MaxTime
    /\ \E t \in Threads : At(t, "entry")
    /\ clock' = clock + 1
    /\ UNCHANGED <<probe, server, settings, updateCache, releasesCache, frames, dl, files,
                   uiQueue, download_active, button, appClosed>>

(***************************************************************************)
(* Specifications.                                                         *)
(***************************************************************************)
\* the steps of one thread inside check_for_app_updates
CheckStep(t) ==
    \/ CheckEnter(t)
    \/ CheckFetchLatest(t)
    \/ CheckFetchAll(t)
    \/ CheckValidate(t)
    \/ CheckPrompt(t)
    \/ CheckException(t)
    \/ CheckRetryReturn(t)
    \/ CheckPersist(t)
    \/ CheckFinish(t)

\* the steps of one thread inside download_and_run_installer
DlStep(t) ==
    \/ DlBegin(t)
    \/ DlGet(t)
    \/ DlChunk(t)
    \/ DlVerify(t)
    \/ DlClose(t)
    \/ DlSpawn(t)

\* Spec: one thread runs checks, one after the other, while the channel and
\* the verify_sha setting change and time passes; a download the user
\* accepts is handed to download_and_run_installer and left running
Next ==
    \/ \E force \in BOOLEAN, quiet \in BOOLEAN : StartCheck("t1", force, quiet)
    \/ CheckStep("t1")
    \/ DevChannelChanged("t1")
    \/ DevToggleVerifySha
    \/ Tick

Spec == Init /\ [][Next]_vars

\* version strings with three or four integers up to MaxPart, the patch
\* number held at that of VERSION_STR
VersionStrings ==
    { <<ma, mi, VERSION_STR[3]>> : ma \in 0..MaxPart, mi \in 0..MaxPart }
    \cup { <<ma, mi, VERSION_STR[3], rc>> :
              ma \in 0..MaxPart, mi \in 0..MaxPart, rc \in 0..MaxPart }

\* Version objects with fields up to MaxPart and rc None, 0, 1, ...
VersionObjects ==
    { Version(ma, mi, pa, rc) :
        ma \in 0..MaxPart, mi \in 0..MaxPart, pa \in 0..MaxPart,
        rc \in {NoRc} \cup { <<n>> : n \in 0..MaxPart } }

VersionProbes ==
    { [kind |-> "compare", sa |-> sa, sb |-> sb, sc |-> sc, done |-> FALSE,
       out |-> NoValue] : sa \in VersionStrings, sb \in VersionStrings,
                          sc \in VersionStrings }
    \cup { [kind |-> "round_trip", v |-> v, done |-> FALSE, out |-> NoValue] :
              v \in VersionObjects }

\* three strings are parsed and the Versions compared with every operator
VersionCompare ==
    /\ probe.kind = "compare" /\ ~probe.done
    /\ LET a == Version_from_str(probe.sa)
           b == Version_from_str(probe.sb)
           c == Version_from_str(probe.sc)
       IN  probe' = [probe EXCEPT !.done = TRUE, !.out =
              [a |-> a, b |-> b, c |-> c,
               lt_ab |-> Version_lt(a, b), gt_ab |-> Version_gt(a, b),
               eq_ab |-> Version_eq(a, b), le_ab |-> Version_le(a, b),
               ge_ab |-> Version_ge(a, b), lt_bc |-> Version_lt(b, c),
               lt_ac |-> Version_lt(a, c), eq_aa |-> Version_eq(a, a)]]
    /\ UNCHANGED <<server, clock, settings, updateCache, releasesCache, frames, dl,
                   files, uiQueue, download_active, button, appClosed>>

\* a Version is printed and the string parsed again
VersionRoundTrip ==
    /\ probe.kind = "round_trip" /\ ~probe.done
    /\ probe' = [probe EXCEPT !.done = TRUE, !.out =
          [str |-> Version_str(probe.v),
           back |-> Version_from_str(Version_str(probe.v))]]
    /\ UNCHANGED <<server, clock, settings, updateCache, releasesCache, frames, dl,
                   files, uiQueue, download_active, button, appClosed>>

\* SpecVersion: the methods of Version on their own
InitVersion ==
    InitApp /\ server = Server(Old, <<Old>>) /\ probe \in VersionProbes

NextVersion == VersionCompare \/ VersionRoundTrip

SpecVersion == InitVersion /\ [][NextVersion]_vars

\* SpecAssets: _select_release_assets on its own, over every asset list of
\* up to MaxAssets assets with these names, each asset with a URL of its own
ShaNameUpper == <<"A", ".", "E", "X", "E", ".", "S", "H", "A", "2", "5", "6">>

AssetNames == {ExeName, ExeNameUpper, ShaName, ShaNameUpper, NotesName}

AssetLists ==
    UNION { { [i \in 1..n |-> Asset(names[i], <<"asset", <<i>>>>)] :
                names \in [1..n -> AssetNames] } : n \in 0..MaxAssets }

AssetProbes ==
    { [kind |-> "select", release |-> Release(VERSION_STR, FALSE, assets),
       done |-> FALSE, out |-> NoValue] : assets \in AssetLists }

\* _select_release_assets(release) is called
SelectReleaseAssets ==
    /\ probe.kind = "select" /\ ~probe.done
    /\ probe' = [probe EXCEPT !.done = TRUE, !.out =
          [exe_url |-> select_release_assets(probe.release)[1],
           sha_url |-> select_release_assets(probe.release)[2]]]
    /\ UNCHANGED <<server, clock, settings, updateCache, releasesCache, frames,
                   dl, files, uiQueue, download_active, button, appClosed>>

InitAssets ==
    InitApp /\ server = Server(Old, <<Old>>) /\ probe \in AssetProbes

NextAssets == SelectReleaseAssets

SpecAssets == InitAssets /\ [][NextAssets]_vars

\* SpecCache: the functions of the cache store on their own, the cache files
\* holding anything a crash, another program or an older build may have left
WellFormedUpdate ==
    { [fetched_at |-> ts, latest_version |-> vs] :
        ts \in 0..MaxTime, vs \in VersionStrings }

UpdateCacheContents ==
    {<<>>, <<NotJson>>, <<JsonArray>>}
    \cup { <<[latest_version |-> VERSION_STR]>> }
    \cup { <<[fetched_at |-> BadTimestamp, latest_version |-> VERSION_STR]>> }
    \cup { <<[fetched_at |-> ts]>> : ts \in 0..MaxTime }
    \cup { <<[fetched_at |-> ts, latest_version |-> vs]>> :
              ts \in 0..MaxTime, vs \in {<<>>, <<MaxPart>>, <<MaxPart, MaxPart>>} }
    \cup { <<c>> : c \in WellFormedUpdate }

ReleasesCacheContents ==
    {<<>>, <<NotJson>>, <<JsonArray>>}
    \cup { <<[channel |-> "stable", releases |-> <<>>]>> }
    \cup { <<[fetched_at |-> BadTimestamp, channel |-> "stable",
              releases |-> <<>>]>> }
    \cup { <<[fetched_at |-> ts, channel |-> ch, releases |-> rs]>> :
              ts \in 0..MaxTime, ch \in {"", "stable", "rc"},
              rs \in {<<>>, <<Old>>, <<PreA, Old>>} }

\* what json.dump has put into the temporary file when it fails half way
Partial == [text |-> "{"]

CacheProbes ==
    { [kind |-> k, ok |-> ok, done |-> FALSE, out |-> NoValue] :
        k \in {"load_update", "load_releases"}, ok \in BOOLEAN }
    \cup { [kind |-> "write", retries |-> r, payload |-> pl, old |-> old,
            pc |-> "loop", attempt |-> 0, tmp |-> 0, temps |-> <<>>,
            errs |-> <<>>, kept |-> {}, raised |-> <<>>] :
              r \in 1..MaxRetries, pl \in WellFormedUpdate,
              old \in {<<>>, <<UpdateSentinel>>} }

\* load_update_cache() is called; ok says whether the reset write, if it
\* comes to one, succeeds
LoadUpdateCacheCall ==
    /\ probe.kind = "load_update" /\ ~probe.done
    /\ updateCache' = load_update_cache_file(updateCache, probe.ok)
    /\ probe' = [probe EXCEPT !.done = TRUE, !.out =
          [file0 |-> updateCache,
           raised |-> load_update_cache_raises(updateCache),
           ret |-> IF load_update_cache_raises(updateCache) THEN NoValue
                   ELSE load_update_cache(updateCache)]]
    /\ UNCHANGED <<server, clock, settings, releasesCache, frames, dl, files,
                   uiQueue, download_active, button, appClosed>>

\* load_releases_cache() is called
LoadReleasesCacheCall ==
    /\ probe.kind = "load_releases" /\ ~probe.done
    /\ releasesCache' = load_releases_cache_file(releasesCache, probe.ok)
    /\ probe' = [probe EXCEPT !.done = TRUE, !.out =
          [file0 |-> releasesCache, raised |-> FALSE,
           ret |-> load_releases_cache(releasesCache)]]
    /\ UNCHANGED <<server, clock, settings, updateCache, frames, dl, files,
                   uiQueue, download_active, button, appClosed>>

\* for attempt in range(retries)
more_attempts_mutant(attempt, retries) == attempt <= retries

more_attempts(attempt, retries) == attempt < retries

\* _write_json_atomic(update_cache_file, payload, retries): the head of the
\* loop.  Either the next attempt begins with NamedTemporaryFile, which
\* creates an empty file and binds tmp or fails and leaves tmp as it was, or
\* the loop is over and the last error is raised.
WriteOpen ==
    /\ probe.kind = "write" /\ probe.pc = "loop"
    /\ IF more_attempts(probe.attempt, probe.retries)
       THEN LET n == probe.attempt + 1
            IN  \/ probe' = [probe EXCEPT !.attempt = n, !.tmp = n,
                                !.temps = Append(@, <<Partial>>),
                                !.pc = "dump"]
                \/ probe' = [probe EXCEPT !.attempt = n,
                                !.temps = Append(@, <<>>),
                                !.errs = Append(@, <<n, "open">>),
                                !.pc = "cleanup"]
       ELSE probe' = [probe EXCEPT !.pc = "raised",
                         !.raised = <<probe.errs[Len(probe.errs)]>>]
    /\ UNCHANGED <<server, clock, settings, updateCache, releasesCache, frames,
                   dl, files, uiQueue, download_active, button, appClosed>>

\* json.dump, flush, fsync and the close of the temporary file
WriteDump ==
    /\ probe.kind = "write" /\ probe.pc = "dump"
    /\ \/ probe' = [probe EXCEPT !.temps[probe.tmp] = <<probe.payload>>,
                       !.pc = "replace"]
       \/ probe' = [probe EXCEPT !.errs = Append(@, <<probe.attempt, "dump">>),
                       !.pc = "cleanup"]
    /\ UNCHANGED <<server, clock, settings, updateCache, releasesCache, frames,
                   dl, files, uiQueue, download_active, button, appClosed>>

\* os.replace(tmp, target) renames the temporary file onto the target in one
\* step and the function returns, or it fails
WriteReplace ==
    /\ probe.kind = "write" /\ probe.pc = "replace"
    /\ \/ /\ updateCache' = probe.temps[probe.tmp]
          /\ probe' = [probe EXCEPT !.temps[probe.tmp] = <<>>,
                          !.pc = "returned"]
       \/ /\ probe' = [probe EXCEPT
                          !.errs = Append(@, <<probe.attempt, "replace">>),
                          !.pc = "cleanup"]
          /\ UNCHANGED updateCache
    /\ UNCHANGED <<server, clock, settings, releasesCache, frames,
                   dl, files, uiQueue, download_active, button, appClosed>>

\* the except branch: os.unlink(tmp) if tmp is bound and the file exists;
\* an OSError of the unlink is passed over and the file stays
WriteCleanup ==
    /\ probe.kind = "write" /\ probe.pc = "cleanup"
    /\ \/ probe' = [probe EXCEPT !.pc = "loop",
                       !.temps = [i \in DOMAIN @ |->
                                     IF i = probe.tmp THEN <<>> ELSE @[i]]]
       \/ /\ probe.tmp # 0 /\ probe.temps[probe.tmp] # <<>>
          /\ probe' = [probe EXCEPT !.pc = "loop",
                          !.kept = @ \cup {probe.tmp}]
    /\ UNCHANGED <<server, clock, settings, updateCache, releasesCache, frames,
                   dl, files, uiQueue, download_active, button, appClosed>>

InitCache ==
    /\ InitProgram /\ server = Server(Old, <<Old>>)
    /\ probe \in CacheProbes
    /\ updateCache \in
          IF probe.kind = "load_update" THEN UpdateCacheContents
          ELSE IF probe.kind = "write" THEN {probe.old}
          ELSE {<<>>}
    /\ releasesCache \in
          IF probe.kind = "load_releases" THEN ReleasesCacheContents ELSE {<<>>}

NextCache ==
    \/ LoadUpdateCacheCall
    \/ LoadReleasesCacheCall
    \/ WriteOpen
    \/ WriteDump
    \/ WriteReplace
    \/ WriteCleanup

SpecCache == InitCache /\ [][NextCache]_vars

\* SpecDownload: one thread runs installs picked in the developer tools,
\* one after the other, while the main loop runs the marshalled callbacks,
\* the user may abort and the verify_sha setting changes
NextDownload ==
    \/ DevInstall("t1")
    \/ DlStep("t1")
    \/ DlFinish("t1")
    \/ UiStep
    \/ abort_download
    \/ DevToggleVerifySha

SpecDownload == Init /\ [][NextDownload]_vars

\* SpecReleases: the developer tools are open: a channel change starts a
\* quiet forced check, the release picker fetches the list and saves it,
\* and the startup check or the check of a click on the update label runs
NextReleases ==
    \/ \E force \in BOOLEAN : StartCheck("t1", force, FALSE)
    \/ DevChannelChanged("t1")
    \/ CheckStep("t1")
    \/ DevSaveReleases

SpecReleases == Init /\ [][NextReleases]_vars

\* the steps of a thread that stays where check_for_app_updates returned
CheckOnce(t) ==
    \/ CheckEnter(t)
    \/ CheckFetchLatest(t)
    \/ CheckFetchAll(t)
    \/ CheckValidate(t)
    \/ CheckPrompt(t)
    \/ CheckException(t)
    \/ CheckRetryReturn(t)
    \/ CheckPersist(t)

\* SpecTwoChecks: one thread runs the startup check or the quiet check of a
\* channel change, another the check of a click on the update label
\* the thread of the Tk main loop while the handler of the update label
\* runs: the handler calls check_for_app_updates itself, on no thread of its
\* own (main_window.py:331)
MainLoopThread == "t2"

NextTwoChecks ==
    \/ StartCheck("t1", FALSE, FALSE)
    \/ DevChannelChanged("t1")
    \/ StartCheck(MainLoopThread, TRUE, FALSE)
    \/ \E t \in Threads : CheckOnce(t)

SpecTwoChecks == Init /\ [][NextTwoChecks]_vars

\* SpecTwoDownloads: two installs of the one release of a host, picked in
\* the developer tools, each on a thread of its own
NextTwoDownloads ==
    \/ \E t \in Threads : DevInstall(t) \/ DlStep(t)
    \/ UiStep
    \/ abort_download

InitTwoDownloads == Init /\ server = Server(Old, <<Old>>)

SpecTwoDownloads == InitTwoDownloads /\ [][NextTwoDownloads]_vars

\* SpecPrompt: one check against a host whose latest release is newer and
\* complete, with the download its prompt may start running inside the call
\* and the main loop running the marshalled callbacks
InitPrompt == Init /\ server = Server(New, <<PreA, PreB, New, Old>>)

NextPrompt ==
    \/ \E force \in BOOLEAN, quiet \in BOOLEAN : StartCheck("t1", force, quiet)
    \/ CheckOnce("t1")
    \/ DlStep("t1")
    \/ CheckAfterDownload("t1")
    \/ UiStep
    \/ abort_download
    \/ DevToggleVerifySha
    \/ DevChannelChanged("t1")

SpecPrompt == InitPrompt /\ [][NextPrompt]_vars

(***************************************************************************)
(* Properties of check_for_app_updates.                                    *)
(***************************************************************************)
\* every check_for_app_updates call on the stacks
Calls == UNION { { frames[t][i] : i \in 1..Len(frames[t]) } : t \in Threads }

\* the call read the update cache, not forced, and found an entry younger
\* than the TTL
CacheHit(f) ==
    /\ ~f.force /\ f.pc # "entry"
    /\ f.loaded # NoValue
    /\ f.now - f.loaded.fetched_at < update_cache_ttl_seconds

\* C1: a call with force_check=False that finds an update cache entry
\* younger than the TTL makes no HTTP request, writes no cache and does not
\* invalidate the releases cache (it does nothing but load and call back),
\* calls the version-update callback with (v, current) and returns v, the
\* cached version; the update cache still holds what it read
C1_CacheHit ==
    \A f \in Calls :
        CacheHit(f) =>
            /\ f.pc = "returned"
            /\ f.ev = <<"load", "cb">>
            /\ f.cb = <<f.loaded.latest_version, CurrentVersion>>
            /\ f.result = f.loaded.latest_version
            /\ load_update_cache(updateCache) = f.loaded

C1_Witness ==
    \E f \in Calls :
        /\ CacheHit(f) /\ f.pc = "returned"
        /\ f.result = f.loaded.latest_version
        /\ Version_gt(f.result, CurrentVersion)

\* the call is a live check whose candidate, after the channel policy, is
\* newer than the running version and comes from a release without a
\* .sha256 asset, validated while verify_sha is "True"
ShaMissing(f) ==
    /\ f.vs = "True"
    /\ Version_gt(f.latest, CurrentVersion)
    /\ ~HasAsset(f.rel, DotSha256)

\* C2: a live check that finds, with verify_sha "True", a candidate newer
\* than current_version whose release has no .sha256 asset hands back
\* current_version, never shows the update prompt and starts no download;
\* show_up_to_date is shown only when the check is forced and not quiet
C2_ShaSuppression ==
    \A f \in Calls :
        ShaMissing(f) =>
            /\ f.pc \in {"persist", "returned", "raised"}
            /\ f.ret = CurrentVersion
            /\ f.pc = "returned" => f.result = CurrentVersion
            /\ f.asked = NoValue
            /\ \A i \in 1..Len(f.ev) :
                  /\ f.ev[i] \notin {"show_update_available", "download"}
                  /\ f.ev[i] = "show_up_to_date" => f.force /\ ~f.quiet
            /\ \A t \in Threads : f \in { frames[t][j] : j \in 1..Len(frames[t]) }
                                       => dl[t].pc = "idle"

C2_Witness ==
    \E f \in Calls :
        /\ ShaMissing(f) /\ f.pc = "returned"
        /\ f.result = CurrentVersion
        /\ f.force /\ ~f.quiet
        /\ f.ev[Len(f.ev) - 2] = "show_up_to_date"

\* the versions of the prereleases of a list
pre_versions(releases_info) ==
    { Version_from_str(pre_releases(releases_info)[i].tag_name) :
        i \in 1..Len(pre_releases(releases_info)) }

\* the candidate the channel policy is described to choose on channel rc:
\* the greatest prerelease when it is newer than the stable latest S
rc_candidate(S, releases_info) ==
    LET vs == pre_versions(releases_info)
        g == CHOOSE v \in vs : \A w \in vs : ~Version_gt(w, v)
    IN  IF vs # {} /\ Version_gt(g, S) THEN g ELSE S

\* C9: on channel rc the candidate of a live check is the greatest
\* prerelease of the list when that is strictly newer than the stable
\* latest S, and S otherwise; on channel stable the candidate is S and the
\* all-releases endpoint is not requested
C9_ChannelPolicy ==
    \A f \in Calls :
        /\ f.channel = "stable" =>
              /\ f.latest = Version_from_str(f.stable.tag_name)
              /\ \A i \in 1..Len(f.ev) : f.ev[i] # "http_all"
        /\ f.channel = "rc" /\ f.listed # <<>> =>
              f.latest = rc_candidate(Version_from_str(f.stable.tag_name), f.listed)

\* C10: a check that is not forced, starts while ask_for_update is "False"
\* and finds as candidate the version recorded in newest_version_available
\* does not show the update prompt
C10_ReminderSuppression ==
    \A f \in Calls :
        ( /\ ~f.force /\ f.ask0 = "False"
          /\ f.latest # NoValue /\ Version_str(f.latest) = f.newest0 )
        => f.asked = NoValue

(***************************************************************************)
(* Properties of download_and_run_installer.                               *)
(***************************************************************************)
Downloads == { dl[t] : t \in Threads }

Has(seq, x) == \E i \in 1..Len(seq) : seq[i] = x

\* the bytes of the first n chunks of a stream
RECURSIVE FirstBytes(_, _)
FirstBytes(payload, n) ==
    IF n = 0 THEN <<>> ELSE FirstBytes(payload, n - 1) \o payload[n]

\* the sum of the sizes of the first n chunks
RECURSIVE FirstSizes(_, _)
FirstSizes(payload, n) ==
    IF n = 0 THEN 0 ELSE FirstSizes(payload, n - 1) + Len(payload[n])

IsHex(token) == "hex" \in DOMAIN token

\* the digest of those bytes is somewhere in the checksum body, in either case
ContainsDigest(body, bytes) ==
    \E i \in 1..Len(body) : IsHex(body[i]) /\ body[i].hex = bytes

\* the digest of those bytes is the first 64-hex token of the checksum body
FirstTokenIsDigest(body, bytes) ==
    \E i \in 1..Len(body) :
        /\ IsHex(body[i]) /\ body[i].hex = bytes
        /\ \A j \in 1..(i - 1) : ~IsHex(body[j])

\* the stream was read to its end without cancellation and the call, given
\* a checksum URL, is past _verify_sha256
Verified(d) ==
    /\ d.sha # None
    /\ Has(d.ev, "finish_download_ui")
    /\ d.pc \in {"close", "spawn", "returned"}

ChecksumRead(d) ==
    /\ Verified(d)
    /\ ~Has(d.ev, "sha_request_failed")
    /\ ~Has(d.ev, "payload_unreadable")

\* what follows a successful verification: no error is shown, the file
\* stays, close_application comes before the launch, and the call returns
\* having launched the installer once with (pid, path)
VerifiedAndLaunched(d) ==
    /\ Has(d.ev, "sha_ok")
    /\ ~Has(d.ev, "show_download_error")
    /\ files[d.path] = <<FirstBytes(d.payload, d.n)>>
    /\ d.pc = "close" => ~Has(d.ev, "close_application") /\ d.launched = <<>>
    /\ d.pc = "spawn" => /\ d.ev[Len(d.ev)] = "close_application"
                         /\ d.launched = <<>>
    /\ d.pc = "returned" =>
          /\ SubSeq(d.ev, Len(d.ev) - 1, Len(d.ev))
                = <<"close_application", "spawn_installer">>
          /\ d.launched = <<<<HostPid, d.path>>>>

\* C4 as stated: when the download completes without cancellation and the
\* checksum file contains the SHA-256 of the payload, verification
\* succeeds, close_application comes first, then the installer is launched
\* once with (pid, path), and no error is shown
C4_ChecksumContained ==
    \A d \in Downloads :
        ChecksumRead(d) /\ ContainsDigest(d.body, FirstBytes(d.payload, d.n))
        => VerifiedAndLaunched(d)

\* C4: when the download completes without cancellation, the checksum is
\* fetched, the payload is read back and the first 64-hex token of the
\* checksum file is, in either case, the SHA-256 of the payload,
\* verification succeeds, no error is shown, close_application comes before
\* the launch, and the call returns having launched the installer exactly
\* once with the host process id and the path of the temporary file
C4_ChecksumFirstToken ==
    \A d \in Downloads :
        ChecksumRead(d) /\ FirstTokenIsDigest(d.body, FirstBytes(d.payload, d.n))
        => VerifiedAndLaunched(d)

C4_Witness ==
    \E d \in Downloads :
        /\ ChecksumRead(d) /\ d.pc = "returned"
        /\ d.body = <<Upper(sha256(FirstBytes(d.payload, d.n))), Junk>>
        /\ d.n = MaxChunks
        /\ d.launched = <<<<HostPid, d.path>>>>

ActiveChecks ==
    { t \in Threads : frames[t] # <<>>
                      /\ frames[t][1].pc \notin {"entry", "returned", "raised"} }

\* C6: at any time at most one invocation of check_for_app_updates is past
\* the guard, a call made meanwhile returning at once
C6_OneActiveCheck == Cardinality(ActiveChecks) <= 1

\* the threads inside download_and_run_installer that hold a temporary
\* file
ActiveDownloads ==
    { t \in Threads : dl[t].pc \in {"get", "loop", "verify", "close", "spawn"} }

\* C7: at any time at most one download_and_run_installer invocation is
\* downloading, a call made meanwhile creating no temporary file
C7_OneActiveDownload == Cardinality(ActiveDownloads) <= 1

(***************************************************************************)
(* The releases cache.                                                     *)
(***************************************************************************)
\* this step is the first statement block of a forced call of thread t
ForcedEntry(t) ==
    /\ At(t, "entry") /\ Top(t).force
    /\ Len(frames'[t]) = Len(frames[t])
    /\ frames'[t][Len(frames[t])].pc = "fetch"

\* this step changes the releases cache file
ReleasesWritten == releasesCache' # releasesCache

\* the file is changed only by the invalidation of a forced call, which
\* leaves the sentinel, and by save_releases_cache, which leaves a payload
\* with the time of the save
OnlyForcedOrSave ==
    ReleasesWritten =>
        \/ /\ releasesCache' = <<ReleasesSentinel>>
           /\ \E t \in Threads : ForcedEntry(t)
        \/ /\ releasesCache'[1].fetched_at = clock
           /\ \A t \in Threads : frames'[t] = frames[t]

\* C8 as stated: when a forced check_for_app_updates returns,
\* load_releases_cache answers the sentinel entry, and it goes on doing so
\* until save_releases_cache completes; a check that is not forced never
\* invalidates
C8_SentinelAfterForcedCheck ==
    [][ /\ \A t \in Threads :
             ( /\ At(t, "persist") /\ Top(t).force
               /\ frames'[t][Len(frames[t])].pc = "returned" )
             => load_releases_cache(releasesCache') = ReleasesSentinel
        /\ OnlyForcedOrSave ]_vars

\* C8: when the invalidation write of a forced check_for_app_updates
\* succeeds, load_releases_cache answers the sentinel entry (epoch, empty
\* channel, empty list) from then on until save_releases_cache completes;
\* when the write fails the file keeps its content; a check that is not
\* forced never changes the releases cache
C8_SentinelAfterInvalidation ==
    [][ /\ \A t \in Threads :
             ForcedEntry(t) =>
                IF frames'[t][Len(frames[t])].ev = <<"invalidate">>
                THEN load_releases_cache(releasesCache') = ReleasesSentinel
                ELSE releasesCache' = releasesCache
        /\ OnlyForcedOrSave ]_vars

C8_Witness ==
    \E t \in Threads :
        /\ frames[t] # <<>> /\ Top(t).force
        /\ Top(t).ev # <<>> /\ Top(t).ev[1] = "invalidate"
        /\ Top(t).pc = "returned"
        /\ load_releases_cache(releasesCache) = ReleasesSentinel

(***************************************************************************)
(* Properties of Version.                                                  *)
(***************************************************************************)
\* the order the comparison is described by: (major, minor, patch, rc')
\* compared position by position, rc' being -1 for an absent rc
Rank(v) == <<v.major, v.minor, v.patch, IF v.rc = NoRc THEN 0 ELSE v.rc[1] + 1>>

Before(v, w) ==
    \/ Rank(v)[1] < Rank(w)[1]
    \/ Rank(v)[1] = Rank(w)[1] /\ Rank(v)[2] < Rank(w)[2]
    \/ Rank(v)[1] = Rank(w)[1] /\ Rank(v)[2] = Rank(w)[2] /\ Rank(v)[3] < Rank(w)[3]
    \/ /\ Rank(v)[1] = Rank(w)[1] /\ Rank(v)[2] = Rank(w)[2]
       /\ Rank(v)[3] = Rank(w)[3] /\ Rank(v)[4] < Rank(w)[4]

\* C11: on parsed versions a, b, c the operators are the lexicographic
\* order on (major, minor, patch, rc') with an absent rc below every
\* present one: a < b exactly when a is before b in that order, exactly one
\* of a < b, a == b, a > b holds, < is transitive, a == a, <= and >= agree
\* with < and ==, and X.Y.Z < X.Y.Z-rcN
C11_VersionOrder ==
    (probe.kind = "compare" /\ probe.done) =>
        LET o == probe.out
        IN  /\ o.lt_ab = Before(o.a, o.b)
            /\ o.gt_ab = Before(o.b, o.a)
            /\ o.eq_ab = (o.a = o.b)
            /\ (o.lt_ab /\ ~o.eq_ab /\ ~o.gt_ab)
                 \/ (~o.lt_ab /\ o.eq_ab /\ ~o.gt_ab)
                 \/ (~o.lt_ab /\ ~o.eq_ab /\ o.gt_ab)
            /\ (o.lt_ab /\ o.lt_bc) => o.lt_ac
            /\ o.eq_aa
            /\ o.le_ab = (o.lt_ab \/ o.eq_ab)
            /\ o.ge_ab = (o.gt_ab \/ o.eq_ab)
            /\ ( /\ o.a.rc = NoRc /\ o.b.rc # NoRc
                 /\ <<o.a.major, o.a.minor, o.a.patch>>
                      = <<o.b.major, o.b.minor, o.b.patch>> ) => o.lt_ab

C11_Witness ==
    /\ probe.kind = "compare" /\ probe.done
    /\ probe.out.a.rc = NoRc /\ probe.out.b.rc = <<0>>
    /\ probe.out.a.minor = probe.out.b.minor /\ probe.out.a.major = probe.out.b.major
    /\ probe.out.lt_ab /\ probe.out.lt_bc /\ probe.out.lt_ac

\* C12: for a Version v with rc absent or rc >= 1, parsing str(v) gives v
\* back; for rc = 0 the string has three numbers and parsing it gives the
\* same version with rc absent
C12_VersionRoundTrip ==
    (probe.kind = "round_trip" /\ probe.done) =>
        LET v == probe.v
            o == probe.out
        IN  /\ (v.rc = NoRc \/ v.rc[1] >= 1) => Version_eq(o.back, v)
            /\ v.rc = <<0>> =>
                  /\ o.str = <<v.major, v.minor, v.patch>>
                  /\ o.back = [v EXCEPT !.rc = NoRc]
            /\ (v.rc # NoRc /\ v.rc[1] >= 1) =>
                  o.str = <<v.major, v.minor, v.patch, v.rc[1]>>

C12_Witness ==
    /\ probe.kind = "round_trip" /\ probe.done
    /\ probe.v.rc = <<1>>
    /\ probe.out.back = probe.v


(***************************************************************************)
(* The cache store: C13, C14, C15.                                         *)
(***************************************************************************)
Loaded == probe.kind \in {"load_update", "load_releases"} /\ probe.done

\* the file the call under way reads, and the sentinel payload of its reset
ProbedFile == IF probe.kind = "load_update" THEN updateCache ELSE releasesCache

ProbedSentinel ==
    IF probe.kind = "load_update" THEN UpdateSentinel ELSE ReleasesSentinel

Unreadable(file) == file # <<>> /\ "text" \in DOMAIN file[1]

MalformedFetchedAt(file) ==
    /\ file # <<>> /\ "fetched_at" \in DOMAIN file[1]
    /\ file[1].fetched_at = BadTimestamp

C14_LoadNeverRaises == Loaded => ~probe.out.raised

Writing == probe.kind = "write"

\* the parts of C15 that do not concern temporary files: at most retries
\* attempts; a return comes right after the first successful attempt, with
\* the payload in the target; the error raised is that of attempt number
\* retries, every attempt having failed; the target always holds the old
\* content or the payload, whole
AtomicWrite ==
    /\ probe.attempt <= probe.retries
    /\ Len(probe.errs) <= probe.attempt
    /\ updateCache \in {probe.old, <<probe.payload>>}
    /\ probe.pc # "returned" => updateCache = probe.old
    /\ probe.pc = "returned"
          => /\ updateCache = <<probe.payload>>
             /\ Len(probe.errs) = probe.attempt - 1
             /\ ~ENABLED NextCache
    /\ probe.pc = "raised"
          => /\ probe.attempt = probe.retries
             /\ Len(probe.errs) = probe.retries
             /\ probe.raised = <<probe.errs[probe.retries]>>
             /\ probe.errs[probe.retries][1] = probe.retries

BetweenAttempts == probe.pc \in {"loop", "returned", "raised"}

\* C15 as stated: ... and no temporary file of a failed attempt is left
\* behind
C15_AtomicWriteNoTemp ==
    Writing =>
        /\ AtomicWrite
        /\ BetweenAttempts => \A i \in DOMAIN probe.temps : probe.temps[i] = <<>>

\* C15: _write_json_atomic makes at most retries attempts, returns right
\* after the first successful one and raises the last error after retries
\* failed ones; the target holds the whole old content or the whole payload
\* at every step; the temporary file of a failed attempt is removed unless
\* the removal itself fails, which is passed over
C15_AtomicWriteBestEffort ==
    Writing =>
        /\ AtomicWrite
        /\ BetweenAttempts =>
              \A i \in DOMAIN probe.temps :
                  probe.temps[i] # <<>> => i \in probe.kept

C15_Witness ==
    /\ Writing /\ probe.pc = "returned" /\ Len(probe.errs) >= 1
    /\ probe.old # <<probe.payload>> /\ updateCache = <<probe.payload>>


(***************************************************************************)
(* Failures of the check: C16, C17.                                        *)
(***************************************************************************)
\* C16: when the tag of the latest release holds fewer than three integers,
\* no call of check_for_app_updates raises; a call that returns after its
\* request returns the false sentinel and has handed it to the version-update
\* callback; nothing is written to the update cache and no update prompt is
\* shown
C16_MalformedTagFailsCleanly ==
    ~Version_can_parse(server.latest.tag_name) =>
        /\ updateCache = <<>>
        /\ \A f \in Calls :
              /\ f.pc # "raised"
              /\ ~Has(f.ev, "save") /\ ~Has(f.ev, "show_update_available")
              /\ f.pc = "returned"
                    => f.result = FalseSentinel /\ f.cb[1] = FalseSentinel

\* the step thread t takes out of _handle_update_check_exception
Handled(t) == At(t, "failed") /\ frames'[t] # frames[t]

\* the step in which the retried call of thread t returns to its caller
RetryBack(t) ==
    /\ Len(frames[t]) >= 2 /\ Top(t).pc = "returned"
    /\ frames'[t] # frames[t]

\* C17: when a metadata request fails, show_update_error_retry is shown
\* exactly if the check is forced and not quiet; unless it is shown and
\* accepted, the call goes on to return the false sentinel, which the
\* version-update callback receives, and the update cache is not written;
\* if it is accepted, check_for_app_updates is entered anew with the same
\* force_check, and what that call returns is what the caller returns
C17_TransportFailure ==
    [][\A t \in Threads :
          LET n == Len(frames[t])
              f == Top(t)
          IN  /\ Handled(t) =>
                    LET g == frames'[t][n]
                    IN  /\ g.ev = IF f.force /\ ~f.quiet
                                  THEN Append(f.ev, "show_update_error_retry")
                                  ELSE f.ev
                        /\ \/ /\ Len(frames'[t]) = n
                              /\ g.pc = "persist" /\ g.ret = FalseSentinel
                           \/ /\ f.force /\ ~f.quiet
                              /\ g.pc = "retrying"
                              /\ frames'[t] = Append(SubSeq(frames'[t], 1, n),
                                                     NewFrame(f.force, FALSE))
              /\ (At(t, "persist") /\ f.ret = FalseSentinel
                    /\ frames'[t] # frames[t])
                    => /\ Top(t)'.pc = "returned"
                       /\ Top(t)'.result = FalseSentinel
                       /\ Top(t)'.cb = <<FalseSentinel, CurrentVersion>>
                       /\ updateCache' = updateCache
              /\ RetryBack(t) =>
                    /\ Len(frames'[t]) = n - 1
                    /\ Top(t)'.pc = "persist" /\ Top(t)'.ret = f.result
              /\ (At(t, "persist") /\ frames'[t] # frames[t]
                    /\ Top(t)'.pc = "returned")
                    => Top(t)'.result = f.ret
    ]_vars

\* a forced check whose request failed has returned the Version its retry
\* fetched
C17_Witness ==
    /\ Len(frames["t1"]) = 1 /\ At("t1", "returned")
    /\ Top("t1").rel = NoValue
    /\ Has(Top("t1").ev, "show_update_error_retry")
    /\ IsVersion(Top("t1").result)


(***************************************************************************)
(* The prompt: C18, C19.                                                   *)
(***************************************************************************)
\* neither the checksum rule nor the installer rule stops the check
PassesValidation(f, verify_sha) ==
    ~ /\ Version_gt(f.latest, CurrentVersion)
      /\ \/ verify_sha = "True" /\ f.sha = None
         \/ f.exe = None

\* the step of thread t from asset validation to the prompt or to the return
PromptDecision(t) ==
    LET f == Top(t)
        g == Top(t)'
        want == /\ Version_gt(f.latest, CurrentVersion)
                /\ (settings'.ask_for_update = "True" \/ f.force)
    IN  /\ (At(t, "validate") /\ frames'[t] # frames[t] /\ ~f.quiet
              /\ PassesValidation(f, settings.verify_sha))
              => /\ (g.pc = "prompt") = want
                 /\ ~want => /\ g.pc = "persist" /\ g.ret = f.latest
                             /\ g.ev = IF f.force
                                       THEN Append(f.ev, "show_up_to_date")
                                       ELSE f.ev
        /\ (At(t, "prompt") /\ frames'[t] # frames[t])
              => /\ Len(g.ev) > Len(f.ev)
                 /\ g.ev[Len(f.ev) + 1] = "show_update_available"
        /\ (~At(t, "prompt") /\ frames[t] # <<>> /\ Len(frames'[t]) = Len(frames[t]))
              => ~ /\ Len(g.ev) > Len(f.ev)
                   /\ g.ev[Len(f.ev) + 1] = "show_update_available"

\* a call that is not quiet and went through asset validation returns the
\* candidate
CandidateReturned ==
    \A f \in Calls :
        (f.pc = "returned" /\ ~f.quiet /\ f.vs # ""
           /\ PassesValidation(f, f.vs))
           => f.result = f.latest

\* C18: in a live check that is not quiet and passes asset validation,
\* show_update_available is shown exactly if the candidate is above the
\* current version and ask_for_update is "True" or the check is forced; when
\* it is not shown, show_up_to_date is shown exactly if the check is forced;
\* either way the call returns the candidate
C18_PromptDecision ==
    [][\A t \in Threads : PromptDecision(t)]_vars /\ []CandidateReturned

\* the decision alone
C18_DecisionOnly == [][\A t \in Threads : PromptDecision(t)]_vars

Dialogs ==
    {"show_up_to_date", "show_update_available", "show_update_reminder_choice",
     "show_update_error_retry", "show_download_error"}

\* C19: a call of check_for_app_updates with quiet = True shows none of
\* show_up_to_date, show_update_available, show_update_reminder_choice,
\* show_update_error_retry and show_download_error, starts no download and
\* calls check_for_app_updates no further, whatever path it takes
C19_QuietIsSilent ==
    \A t \in Threads :
        \A i \in 1..Len(frames[t]) :
            frames[t][i].quiet =>
                /\ \A k \in 1..Len(frames[t][i].ev) :
                      frames[t][i].ev[k] \notin Dialogs \cup {"download"}
                /\ frames[t][i].pc \notin {"prompt", "download", "retrying"}
                /\ i = Len(frames[t])
                /\ dl[t].pc = "idle"

\* a quiet check has fetched a release above the current version, with its
\* assets or without, and has returned
C19_Witness ==
    \E f \in Calls :
        /\ f.quiet /\ f.pc = "returned" /\ f.vs # ""
        /\ Version_gt(f.latest, CurrentVersion)
        /\ Has(f.ev, "cb")


(***************************************************************************)
(* Settings bookkeeping: C20.                                              *)
(***************************************************************************)
\* C20: once a live check is through asset validation, if its candidate is
\* above the newest_version_available recorded when the check began, that
\* setting holds the candidate and ask_for_update is "True" (until the user
\* chooses not to be reminded); if the candidate is not above it, the
\* setting is as it was and ask_for_update has not gone from "False" to
\* "True"
C20_SettingsBookkeeping ==
    \A f \in Calls :
        ( /\ f.vs # "" /\ PassesValidation(f, f.vs)
          /\ f.pc \in {"prompt", "download", "persist", "returned"} )
        => IF Version_gt(f.latest, Version_from_str(f.newest0))
           THEN /\ settings.newest_version_available = Version_str(f.latest)
                /\ \/ settings.ask_for_update = "True"
                   \/ Has(f.ev, "show_update_reminder_choice")
           ELSE /\ settings.newest_version_available = f.newest0
                /\ ~(f.ask0 = "False" /\ settings.ask_for_update = "True")


(***************************************************************************)
(* Order of events and the update cache: C21, C22.                         *)
(***************************************************************************)
\* the stage of check_for_app_updates an event belongs to; the prompt, the
\* download and the retry dialog belong to the fetch
Stage(e) ==
    IF e = "load" THEN 1
    ELSE IF e \in {"save", "save_failed"} THEN 3
    ELSE IF e = "cb" THEN 4
    ELSE 2

LiveFetch(f) == Has(f.ev, "http_latest")

\* C21: in every call of check_for_app_updates that goes to the network, the
\* events of the call come in the order read of the update cache (first, and
\* only when not forced), requests with what runs inside the fetch (prompt,
\* download, retry dialog), write of the update cache, version-update
\* callback; a call that has returned a Version has written the cache before
\* its callback
C21_EventOrder ==
    \A f \in Calls :
        LiveFetch(f) =>
            /\ \A i \in 1..Len(f.ev) : \A j \in i..Len(f.ev) :
                  Stage(f.ev[i]) <= Stage(f.ev[j])
            /\ ~f.force => f.ev[1] = "load"
            /\ f.force => ~Has(f.ev, "load")
            /\ (f.pc = "returned" /\ IsVersion(f.result))
                  => /\ Len(f.ev) >= 2
                     /\ f.ev[Len(f.ev) - 1] = "save"
                     /\ f.ev[Len(f.ev)] = "cb"

\* a call that read the cache, fetched, prompted, started a download and
\* came back has written the cache and run the callback
C21_Witness ==
    \E f \in Calls :
        /\ f.pc = "returned" /\ ~f.force /\ Has(f.ev, "download")
        /\ Has(f.ev, "save") /\ Has(f.ev, "cb") /\ Has(f.ev, "load")

\* C22: the update cache changes only in the step in which a call that holds
\* a Version from a live fetch saves it, a call that failed leaves it alone,
\* and the fetched_at of each new content is not below that of the content
\* it replaces
C22_FetchedAtMonotone ==
    [][updateCache' # updateCache =>
          /\ \E t \in Threads :
                /\ At(t, "persist") /\ IsVersion(Top(t).ret)
                /\ updateCache' = <<update_cache_payload(Top(t).now, Top(t).ret)>>
          /\ updateCache # <<>> =>
                updateCache'[1].fetched_at >= updateCache[1].fetched_at
    ]_vars


(***************************************************************************)
(* Assets: C23, C24.                                                       *)
(***************************************************************************)
\* the candidate release of f is above the current version, carries no
\* installer and is not held back by the checksum rule
InstallerMissing(f) ==
    /\ f.vs # "" /\ f.rel # NoValue
    /\ Version_gt(f.latest, CurrentVersion)
    /\ select_release_assets(f.rel)[1] = None
    /\ ~(f.vs = "True" /\ select_release_assets(f.rel)[2] = None)

\* what C23 asks of a call whose candidate misses its installer
MissingInstallerHandled(f) ==
    /\ f.pc \notin {"prompt", "download"}
    /\ ~Has(f.ev, "show_update_available") /\ ~Has(f.ev, "download")
    /\ ~Has(f.ev, "show_up_to_date") /\ ~Has(f.ev, "show_download_error")
    /\ Has(f.ev, "show_update_error_retry") = (f.force /\ ~f.quiet)
    /\ f.pc = "returned" => f.result = f.latest

\* C23: a check whose candidate release is above the current version, has
\* no installer asset and is not suppressed by the checksum rule returns the
\* candidate, never shows show_update_available and starts no download; it
\* shows show_update_error_retry exactly if it is forced and not quiet, and
\* nothing else
C23_MissingInstaller ==
    \A f \in Calls : InstallerMissing(f) => MissingInstallerHandled(f)

\* the same on channel stable only
C23_MissingInstallerStable ==
    \A f \in Calls :
        (InstallerMissing(f) /\ f.channel = "stable") => MissingInstallerHandled(f)

Selected == probe.kind = "select" /\ probe.done

\* asset names that end, in whatever case, with .exe and with .sha256
InstallerNames == {ExeName, ExeNameUpper}
ChecksumNames == {ShaName, ShaNameUpper}

\* the places in the asset list of the probed release with a name of names
Places(names) ==
    { i \in 1..Len(probe.release.assets) : probe.release.assets[i].name \in names }

First(places) == CHOOSE i \in places : \A j \in places : i <= j
Last(places) == CHOOSE i \in places : \A j \in places : i >= j

\* the URL of the asset pick(places) chooses among those named in names
Picked(names, url, pick(_)) ==
    IF Places(names) = {} THEN url = None
    ELSE url = probe.release.assets[pick(Places(names))].url

\* C24 as stated: exe_url is the URL of the first asset whose name ends with
\* .exe and sha_url that of the first whose name ends with .sha256, each none
\* when there is no such asset
C24_FirstMatch ==
    Selected =>
        /\ Picked(InstallerNames, probe.out.exe_url, First)
        /\ Picked(ChecksumNames, probe.out.sha_url, First)

\* C24: exe_url is the URL of the last asset in list order whose name ends,
\* in whatever case, with .exe, and sha_url that of the last whose name ends
\* with .sha256; each is none when there is no such asset; an asset named
\* *.exe.sha256 is never the installer
C24_LastMatch ==
    Selected =>
        /\ Picked(InstallerNames, probe.out.exe_url, Last)
        /\ Picked(ChecksumNames, probe.out.sha_url, Last)
        /\ \A i \in Places(ChecksumNames) :
              probe.out.exe_url # probe.release.assets[i].url

\* two installers and a checksum in upper case in between
C24_Witness ==
    /\ Selected
    /\ Cardinality(Places(InstallerNames)) >= 2
    /\ Places({ShaNameUpper}) # {}
    /\ probe.out.exe_url # None /\ probe.out.sha_url # None


(***************************************************************************)
(* The download started by a check: C25.                                   *)
(***************************************************************************)
\* the installer request or its stream failed and the call is over
DownloadFailed(d) ==
    /\ d.pc \in {"returned", "raised"}
    /\ Has(d.ev, "http_exe")
    /\ ~Has(d.ev, "finish_download_ui") /\ ~Has(d.ev, "cancelled")

\* C25: a failure of the installer request or of its stream ends
\* download_and_run_installer by a return, with show_download_error shown,
\* the temporary file removed and no installer launched, and the check that
\* started the download does not show show_update_error_retry for it
C25_DownloadFailureSurfaced ==
    /\ \A d \in Downloads :
          DownloadFailed(d) =>
              /\ d.pc = "returned"
              /\ Has(d.ev, "show_download_error")
              /\ files[d.path] = <<>>
              /\ d.launched = <<>>
    /\ \A f \in Calls :
          \A i \in 1..Len(f.ev) : \A j \in i..Len(f.ev) :
              ~(f.ev[i] = "download" /\ f.ev[j] = "show_update_error_retry")


(***************************************************************************)
(* Threads: C26, C27, C28.                                                 *)
(***************************************************************************)
Requests ==
    {"http_latest", "http_all", "http_exe", "sha_request_failed",
     "payload_unreadable", "sha_rejected", "sha_ok"}

\* C26: no call that runs on the thread of the Tk main loop makes a request
\* to the release host: not the metadata requests, not the installer
\* request, not the checksum request
C26_NoRequestOnUiThread ==
    /\ \A i \in 1..Len(frames[MainLoopThread]) :
          \A k \in 1..Len(frames[MainLoopThread][i].ev) :
              frames[MainLoopThread][i].ev[k] \notin Requests
    /\ \A k \in 1..Len(dl[MainLoopThread].ev) :
          dl[MainLoopThread].ev[k] \notin Requests

\* the step in which the poll of thread t finds its download cancelled
Cancels(t) == dl[t].pc = "loop" /\ Has(dl'[t].ev, "cancelled")

\* C27: a download is found cancelled only when the marshalled
\* start_download of that download has run and the user has pressed abort
\* since (the button is back to "start")
C27_CancelOnlyAfterAbort ==
    [][\A t \in Threads :
          Cancels(t) => ~Has(uiQueue, "start_download") /\ button = "start"
    ]_vars

\* download_and_run_installer is over: it returned, it raised, or the
\* process ended under it once root.destroy() had run
Ended(d) ==
    \/ d.pc \in {"returned", "raised"}
    \/ appClosed /\ d.pc \notin {"idle", "call"}

\* C28: when download_and_run_installer is over and has launched no
\* installer, its temporary file is gone and close_application was not
\* called; the file is left, and the application told to close, only by a
\* call that launched the installer
C28_CloseOnlyWithLaunch ==
    \A d \in Downloads :
        (Ended(d) /\ d.launched = <<>>)
            => files[d.path] = <<>> /\ ~Has(d.ev, "close_application")


(***************************************************************************)
(* What the prompt hands to the download: C29, C30.                        *)
(***************************************************************************)
\* the check of thread t has just called download_and_run_installer
DownloadCalled(t) == At(t, "download") /\ dl[t].pc = "call"

\* C29: the installer URL given to download_and_run_installer is the
\* installer asset of the release whose version the prompt showed, and the
\* checksum URL, when one is given, is the checksum asset of that release
C29_SameRelease ==
    \A t \in Threads :
        DownloadCalled(t) =>
            /\ Top(t).asked = Version_from_str(Top(t).rel.tag_name)
            /\ dl[t].url = select_release_assets(Top(t).rel)[1]
            /\ dl[t].sha # None
                  => dl[t].sha = select_release_assets(Top(t).rel)[2]

\* C30: when the user answers Yes and verify_sha is "True" at that moment,
\* download_and_run_installer is given a checksum URL, whatever verify_sha
\* was when the assets were validated
C30_VerifyAtDownload ==
    [][\A t \in Threads :
          (At(t, "prompt") /\ DownloadCalled(t)' /\ settings.verify_sha = "True")
              => dl'[t].sha # None
    ]_vars

====
